---- MODULE Spec2Model ----
(***************************************************************************)
(* Model of push_client.py: PushSession / SecurePushSession (handshake,    *)
(* stop), PushClient (session registry, lazily started I/O thread,         *)
(* create_session, stop_all) and the select loop PushClient.__select.      *)
(*                                                                         *)
(* Threads: the callers of create_session (one call per session object),   *)
(* the callers of stop_all, the holders of returned session handles        *)
(* (session.stop()), the Thread objects created by create_session, and     *)
(* the server at the other end of every socket.                            *)
(***************************************************************************)
EXTENDS Integers, Sequences, FiniteSets, TLC

\* ---------------------------------------------------------------- bounds
MaxSessions == 2        \* create_session calls (one session object each)
MaxMsgs     == 2        \* frames the server sends in total
MaxStopAll  == 2        \* stop_all calls
MaxRestarts == 1        \* start() calls through returned handles that connect

\* ------------------------------------------------------- program constants
None                     == 0
CONNECTION_RESPONSE      == 2
PUBLISH_MESSAGE_RECEIVED == 4
STATUS_OK                == 200
STATUS_UNAUTHORIZED      == 403
RESPONSE_LEN             == 10
HEADER_LEN               == 16
ACK_STATUS               == 200

SessIds   == 1..MaxSessions      \* session objects, in order of construction
SockIds   == 1..(MaxSessions + MaxRestarts)  \* socket objects, in order of creation
FDs       == 1..MaxSessions      \* file descriptor numbers
Threads   == 1..MaxSessions      \* Thread t is the one made by call t
StopCalls == 1..MaxStopAll

\* Frame lengths the server may put on the wire: one a byte short of the
\* 16 bytes the loop unpacks, one carrying a full header and 5 payload bytes.
DataLens  == {15, 21}
BlockIds  == {7, 9}
CallbackOutcomes == {"True", "False", "None", "Raise"}

VARIABLES
    secure,      \* PushClient.secure
    sessions,    \* PushClient.sessions: fileno -> session (None: no such key)
    io_thread,   \* PushClient.__io_thread: None or a Thread
    closed,      \* PushClient.closed
    socket,      \* PushSession.socket per session: None or a socket object
    cpc,         \* position of each create_session call
    cerr,        \* the exception a create_session call raised ("none" if none)
    cargs,       \* what a create_session call was given: "neither" monitor nor
                 \* monitor_id, or one of them "given" ("unset": not called)
    sockState,   \* per socket object: "unused" | "open" | "closed"
    sockFd,      \* per socket object: its file descriptor number
    inbuf,       \* per socket: frames sent by the server, not yet read
    eof,         \* per socket: the server closed its end
    sent,        \* per socket: frames the client wrote to it after the handshake
    wpc,         \* per Thread: position in __select
    inputready,  \* per Thread: rest of the list the for loop walks
    sck,         \* per Thread: local sck
    block_id,    \* per Thread: local block_id
    sweep,       \* per Thread: rest of self.sessions.values() in the finally
    ret,         \* per Thread: what the callback call produced
    sapc,        \* position of each stop_all call
    saLeft,      \* per stop_all call: <<closed, io_thread>> when it returned
    nmsg,        \* frames sent by the server so far
    nstart,      \* start() calls through returned handles that got past line 120
    response     \* per session: what recv(10) returned to its last start()
                 \* (NoResponse: the start never got that far)

vars == <<secure, sessions, io_thread, closed, socket, cpc, cerr, cargs, sockState,
          sockFd, inbuf, eof, sent, wpc, inputready, sck, block_id, ret, sweep,
          sapc, saLeft, nmsg, nstart, response>>

clientVars  == <<secure, sessions, io_thread, closed>>
sessVars    == <<socket>>
callVars    == <<cpc, cerr, cargs>>
sockVars    == <<sockState, sockFd, inbuf, eof, sent>>
workerVars  == <<wpc, inputready, sck, block_id, ret, sweep>>
stopVars    == <<sapc, saLeft>>
ghostVars   == <<nmsg, nstart, response>>

\* ---------------------------------------------------------------- helpers
Min(S) == CHOOSE x \in S : \A y \in S : x <= y

RECURSIVE SortedSeq(_)
SortedSeq(S) == IF S = {} THEN <<>> ELSE <<Min(S)>> \o SortedSeq(S \ {Min(S)})

RECURSIVE SumLen(_)
SumLen(fs) == IF fs = <<>> THEN 0 ELSE Head(fs).len + SumLen(Tail(fs))

\* The descriptor the OS hands out: the lowest number no open socket holds.
OpenFds == {sockFd[k] : k \in {j \in SockIds : sockState[j] = "open"}}
FreeFd  == Min(FDs \ OpenFds)

\* The open socket object behind a descriptor number (None if the number
\* names no open descriptor).
SockOfFd(fd) ==
    IF \E k \in SockIds : sockState[k] = "open" /\ sockFd[k] = fd
    THEN CHOOSE k \in SockIds : sockState[k] = "open" /\ sockFd[k] = fd
    ELSE None

NextSock == Min({k \in SockIds : sockState[k] = "unused"})

\* dict.keys() / dict.values() of self.sessions (small int keys: key order).
Keys        == {fd \in FDs : sessions[fd] # None}
KeysList    == SortedSeq(Keys)
ValuesList  == [i \in 1..Len(KeysList) |-> sessions[KeysList[i]]]
Registered(s) == \E fd \in FDs : sessions[fd] = s

\* Thread.is_alive(): started and not yet finished.
IsAlive(t) == wpc[t] \notin {"unborn", "created", "dead"}


\* -------------------------------------------------------------- handshake
\* What the network does to one start(): the stage at which it fails, or a
\* response of the given length, type field and status field.
Stages == {"socket", "wrap", "connect", "send", "timeout", "resp"}
Responses ==
    [stage : {"resp"}, len : {8, RESPONSE_LEN},
     type : {CONNECTION_RESPONSE, 3}, status : {STATUS_OK, STATUS_UNAUTHORIZED}]
Failures ==
    [stage : Stages \ {"resp"}, len : {0}, type : {0}, status : {0}]
HandshakeInputs == Responses \cup Failures

\* recv(10) of send_connection_request (line 91) as start() saw it.
NoResponse == [stage |-> "none", len |-> 0, type |-> 0, status |-> 0]
Received(h) == IF h.stage = "resp" THEN h ELSE NoResponse

\* PushSession.send_connection_request: the exception it raises ("none" when
\* it returns normally).
SendConnectionRequestError_AnyLength(h) ==
    IF h.stage = "send" THEN "socket.error"
    ELSE IF h.stage = "timeout" THEN "socket.timeout"
    ELSE IF h.type # CONNECTION_RESPONSE THEN "PushException"
    ELSE IF h.status # STATUS_OK THEN "TypeError"
    ELSE "none"
SendConnectionRequestError(h) ==
    IF h.stage = "send" THEN "socket.error"
    ELSE IF h.stage = "timeout" THEN "socket.timeout"
    ELSE IF h.len # RESPONSE_LEN THEN "PushException"
    ELSE IF h.type # CONNECTION_RESPONSE THEN "PushException"
    ELSE IF h.status # STATUS_OK THEN "TypeError"
    ELSE "none"

\* PushSession.start / SecurePushSession.start: the exception raised.
StartError(h) ==
    IF h.stage = "socket" THEN "AttributeError"
    ELSE IF h.stage = "wrap" THEN "ssl.SSLError"
    ELSE IF h.stage = "connect" THEN "socket.error"
    ELSE SendConnectionRequestError(h)

\* A socket object exists once socket.socket() has returned.
SocketCreated(h) == h.stage # "socket"

\* State of the socket object when start() leaves through an except clause.
SockAfterFailedStart_Leak == "open"
SockAfterFailedStart == "closed"

\* create_session goes on past session.start() only when it did not raise.
ContinuesAfterStart(err) == err = "none"

\* The monitor check at the top of create_session.
ConfigError_Never(monitor, monitor_id) == FALSE
ConfigError(monitor, monitor_id) == monitor = None /\ monitor_id = None

\* ---------------------------------------------------------- create_session
Init ==
    \* secure=True is the constructor's default (line 204). A client made
    \* with secure=False runs PushSession.start, which fails at the same
    \* stages less the TLS wrap: its behaviours are among those below.
    /\ secure = TRUE
    /\ sessions = [fd \in FDs |-> None]
    /\ io_thread = None
    /\ closed = FALSE
    /\ socket = [s \in SessIds |-> None]
    /\ cpc = [s \in SessIds |-> "idle"]
    /\ cerr = [s \in SessIds |-> "none"]
    /\ cargs = [s \in SessIds |-> "unset"]
    /\ sockState = [k \in SockIds |-> "unused"]
    /\ sockFd = [k \in SockIds |-> None]
    /\ inbuf = [k \in SockIds |-> <<>>]
    /\ eof = [k \in SockIds |-> FALSE]
    /\ sent = [k \in SockIds |-> <<>>]
    /\ wpc = [t \in Threads |-> "unborn"]
    /\ inputready = [t \in Threads |-> <<>>]
    /\ sck = [t \in Threads |-> None]
    /\ block_id = [t \in Threads |-> None]
    /\ sweep = [t \in Threads |-> <<>>]
    /\ ret = [t \in Threads |-> "none"]
    /\ sapc = [c \in StopCalls |-> "idle"]
    /\ saLeft = [c \in StopCalls |-> <<>>]
    /\ nmsg = 0
    /\ nstart = 0
    /\ response = [s \in SessIds |-> NoResponse]

\* create_session up to and including session.start() (lines 355-366).
CreateSession(s, monitor, monitor_id, h) ==
    /\ cpc[s] = "idle"
    /\ \A r \in SessIds : r < s => cpc[r] # "idle"
    /\ h.stage = "wrap" => secure
    /\ cargs' = [cargs EXCEPT ![s] =
                    IF monitor = None /\ monitor_id = None THEN "neither" ELSE "given"]
    /\ IF ConfigError(monitor, monitor_id)
       THEN /\ cpc' = [cpc EXCEPT ![s] = "cfgerr"]
            /\ cerr' = [cerr EXCEPT ![s] = "PushException"]
            /\ UNCHANGED <<socket, sockState, sockFd, response>>
       ELSE LET err == StartError(h)
                k   == NextSock
            IN  /\ IF ~SocketCreated(h)
                   THEN UNCHANGED <<socket, sockState, sockFd>>
                   ELSE /\ sockFd' = [sockFd EXCEPT ![k] = FreeFd]
                        /\ sockState' = [sockState EXCEPT ![k] =
                              IF err = "none" THEN "open"
                              ELSE SockAfterFailedStart]
                        /\ socket' = [socket EXCEPT ![s] =
                              IF err = "none" THEN k ELSE None]
                /\ cpc' = [cpc EXCEPT ![s] =
                              IF ContinuesAfterStart(err) THEN "started"
                              ELSE "hserr"]
                /\ cerr' = [cerr EXCEPT ![s] = err]
                /\ response' = [response EXCEPT ![s] = Received(h)]
    /\ UNCHANGED <<clientVars, inbuf, eof, sent, workerVars, stopVars, nmsg, nstart>>

\* self.sessions[session.socket.fileno()] = session, and the test
\* "self.__io_thread is None" (lines 367-370).
Register(s) ==
    /\ cpc[s] = "started"
    /\ socket[s] # None
    /\ sessions' = [sessions EXCEPT ![sockFd[socket[s]]] = s]
    /\ cpc' = [cpc EXCEPT ![s] = IF io_thread = None THEN "assign" ELSE "returned"]
    /\ UNCHANGED <<secure, io_thread, closed, sessVars, cerr, cargs, sockVars,
                   workerVars, stopVars, ghostVars>>

\* self.__io_thread = Thread(target=self.__select) (line 371).
AssignThread(s) ==
    /\ cpc[s] = "assign"
    /\ io_thread' = s
    /\ wpc' = [wpc EXCEPT ![s] = "created"]
    /\ cpc' = [cpc EXCEPT ![s] = "start"]
    /\ UNCHANGED <<secure, sessions, closed, sessVars, cerr, cargs, sockVars,
                   inputready, sck, block_id, ret, sweep, stopVars, ghostVars>>

\* self.__io_thread.start() (line 372): the attribute is read again; starting
\* a Thread a second time raises RuntimeError.
StartThread(s) ==
    /\ cpc[s] = "start"
    /\ IF wpc[io_thread] = "created"
       THEN /\ wpc' = [wpc EXCEPT ![io_thread] = "loop"]
            /\ cpc' = [cpc EXCEPT ![s] = "returned"]
            /\ UNCHANGED cerr
       ELSE /\ cpc' = [cpc EXCEPT ![s] = "thrderr"]
            /\ cerr' = [cerr EXCEPT ![s] = "RuntimeError"]
            /\ UNCHANGED wpc
    /\ UNCHANGED <<clientVars, sessVars, cargs, sockVars, inputready, sck,
                   block_id, ret, sweep, stopVars, ghostVars>>

\* ----------------------------------------------------------- PushSession.start
\* "if self.socket is not None: raise Exception(...)" (lines 120-121 and
\* 175-176).
StartRefused_Never(s) == FALSE
StartRefused(s) == socket[s] # None

\* session.start() called by whoever holds the handle create_session returned.
\* Refused, it raises and changes nothing; otherwise it makes a socket,
\* connects and runs the handshake as the first start() did. The registry is
\* written by create_session only.
UserStart(s, h) ==
    /\ cpc[s] = "returned"
    /\ h.stage = "wrap" => secure
    /\ ~StartRefused(s)
    /\ nstart < MaxRestarts
    /\ nstart' = nstart + 1
    /\ response' = [response EXCEPT ![s] = Received(h)]
    /\ LET err == StartError(h)
           k   == NextSock
       IN  IF ~SocketCreated(h)
           THEN UNCHANGED <<socket, sockState, sockFd>>
           ELSE /\ sockFd' = [sockFd EXCEPT ![k] = FreeFd]
                /\ sockState' = [sockState EXCEPT ![k] =
                      IF err = "none" THEN "open" ELSE SockAfterFailedStart]
                /\ socket' = [socket EXCEPT ![s] = IF err = "none" THEN k ELSE None]
    /\ UNCHANGED <<clientVars, callVars, inbuf, eof, sent, workerVars, stopVars, nmsg>>

\* ------------------------------------------------------------ PushSession.stop
\* self.socket.close() on a session whose socket attribute is None raises
\* AttributeError.
StopRaises(s) == socket[s] = None

\* The registry after a session's stop(): stop() touches only the session.
SessionsAfterStop(s) == sessions

\* self.socket.close(); self.socket = None (lines 138-139). Unread data of a
\* closed socket is gone.
StopEffect(s) ==
    /\ sockState' = [sockState EXCEPT ![socket[s]] = "closed"]
    /\ inbuf' = [inbuf EXCEPT ![socket[s]] = <<>>]
    /\ eof' = [eof EXCEPT ![socket[s]] = FALSE]
    /\ socket' = [socket EXCEPT ![s] = None]
    /\ sessions' = SessionsAfterStop(s)
    /\ UNCHANGED <<sockFd, sent>>

\* session.stop() called by whoever holds the handle create_session returned.
\* On a session already stopped it raises and changes nothing.
UserStop(s) ==
    /\ cpc[s] = "returned"
    /\ ~StopRaises(s)
    /\ StopEffect(s)
    /\ UNCHANGED <<secure, io_thread, closed, callVars, workerVars, stopVars,
                   ghostVars>>

\* ------------------------------------------------------------------ stop_all
\* What stop_all writes to self.closed once it has seen an I/O thread.
ClosedAfterStopAll_Toggle == ~closed
ClosedAfterStopAll == TRUE

\* Lines 379-380: the test of __io_thread and the write of the flag.
StopAllBegin(c) ==
    /\ sapc[c] = "idle"
    /\ \A d \in StopCalls : d < c => sapc[d] # "idle"
    /\ IF io_thread # None
       THEN /\ closed' = ClosedAfterStopAll
            /\ sapc' = [sapc EXCEPT ![c] = "waiting"]
            /\ UNCHANGED saLeft
       ELSE /\ sapc' = [sapc EXCEPT ![c] = "returned"]
            /\ saLeft' = [saLeft EXCEPT ![c] = <<closed, io_thread>>]
            /\ UNCHANGED closed
    /\ UNCHANGED <<secure, sessions, io_thread, sessVars, callVars, sockVars,
                   workerVars, ghostVars>>

\* Lines 382-383: the wait ends when the thread is not alive.
StopAllWait(c) ==
    /\ sapc[c] = "waiting"
    /\ ~IsAlive(io_thread)
    /\ sapc' = [sapc EXCEPT ![c] = "returned"]
    /\ saLeft' = [saLeft EXCEPT ![c] = <<closed, io_thread>>]
    /\ UNCHANGED <<clientVars, sessVars, callVars, sockVars, workerVars, ghostVars>>

\* -------------------------------------------------------------------- server
\* The server writes one frame to a connection.
ServerSend(k, len, b) ==
    /\ sockState[k] = "open"
    /\ ~eof[k]
    /\ nmsg < MaxMsgs
    /\ nmsg' = nmsg + 1
    /\ inbuf' = [inbuf EXCEPT ![k] = Append(@, [len |-> len, block_id |-> b])]
    /\ UNCHANGED <<clientVars, sessVars, callVars, sockState, sockFd, eof, sent,
                   workerVars, stopVars, nstart, response>>

\* The server closes a connection.
PeerClose(k) ==
    /\ sockState[k] = "open"
    /\ ~eof[k]
    /\ eof' = [eof EXCEPT ![k] = TRUE]
    /\ UNCHANGED <<clientVars, sessVars, callVars, sockState, sockFd, inbuf, sent,
                   workerVars, stopVars, ghostVars>>

\* ------------------------------------------------------------------ __select
\* Number of bytes data[a:b] yields from data of n bytes.
Slice(n, a, b) ==
    LET hi == IF b < n THEN b ELSE n IN IF hi > a THEN hi - a ELSE 0

\* Lines 313-318: struct.unpack raises unless the slice has exactly the size
\* of the format ('!H' 2, '!B' 1, '!i' 4).
DecodeOk_Lenient(n) == n >= 12
DecodeOk(n) ==
    /\ Slice(n, 0, 2) = 2
    /\ Slice(n, 6, 8) = 2
    /\ Slice(n, 8, 10) = 2
    /\ Slice(n, 10, 11) = 1
    /\ Slice(n, 11, 12) = 1
    /\ Slice(n, 12, 16) = 4

\* "if session.callback(payload):" for the values the callback contract names.
Truthy_Always(r) == TRUE
Truthy(r) == r = "True"

\* struct.pack('!HHH', PUBLISH_MESSAGE_RECEIVED, block_id, 200).
AckFrame_Zero(b) == [op |-> PUBLISH_MESSAGE_RECEIVED, block_id |-> 0, status |-> ACK_STATUS]
AckFrame(b) == [op |-> PUBLISH_MESSAGE_RECEIVED, block_id |-> b, status |-> ACK_STATUS]

\* Where the thread goes on when the except clause of the loop body has
\* caught an exception: back to the while test.
AfterException_Exit == "finally"
AfterException == "loop"

\* select.select raises when a key of self.sessions is no open descriptor.
SelectRaises == \E fd \in Keys : SockOfFd(fd) = None

Readable(k) == inbuf[k] # <<>> \/ eof[k]

\* inputready: the keys whose descriptor has data or end-of-file to read.
RECURSIVE ReadyOf(_)
ReadyOf(ks) ==
    IF ks = <<>> THEN <<>>
    ELSE (IF Readable(SockOfFd(Head(ks))) THEN <<Head(ks)>> ELSE <<>>)
         \o ReadyOf(Tail(ks))
InputReady == ReadyOf(KeysList)

\* The finally clause walks self.sessions.values() as it is on entry.
SweepList == ValuesList

\* The thread enters the finally clause (lines 334-335).
EnterFinally(t) ==
    /\ sweep' = [sweep EXCEPT ![t] = SweepList]
    /\ wpc' = [wpc EXCEPT ![t] = IF SweepList = <<>> THEN "dead" ELSE "sweep"]

\* One turn of "while not self.closed" up to the return of select (297-303).
\* A select that raises (a key is no open descriptor) is caught at line 330,
\* one that times out returns empty lists: either way the thread is back at
\* the while test with nothing changed, a step that leaves the state as it is.
WSelect(t) ==
    /\ wpc[t] = "loop"
    /\ IF closed
       THEN /\ EnterFinally(t)
            /\ UNCHANGED inputready
       ELSE /\ ~SelectRaises
            /\ InputReady # <<>>
            /\ inputready' = [inputready EXCEPT ![t] = InputReady]
            /\ wpc' = [wpc EXCEPT ![t] = "for"]
            /\ UNCHANGED sweep
    /\ UNCHANGED <<clientVars, sessVars, callVars, sockVars, sck, block_id, ret,
                   stopVars, ghostVars>>

\* An exception reaches the except clause at line 330: the rest of inputready
\* is dropped, the locals of the turn are dead.
Caught(t) ==
    /\ inputready' = [inputready EXCEPT ![t] = <<>>]
    /\ sck' = [sck EXCEPT ![t] = None]
    /\ block_id' = [block_id EXCEPT ![t] = None]
    /\ ret' = [ret EXCEPT ![t] = "none"]
    /\ IF AfterException = "loop"
       THEN /\ wpc' = [wpc EXCEPT ![t] = "loop"]
            /\ UNCHANGED sweep
       ELSE EnterFinally(t)

\* The for loop goes on to the next ready descriptor, or back to the while.
Continue(t) ==
    /\ inputready' = [inputready EXCEPT ![t] = Tail(@)]
    /\ sck' = [sck EXCEPT ![t] = None]
    /\ block_id' = [block_id EXCEPT ![t] = None]
    /\ ret' = [ret EXCEPT ![t] = "none"]
    /\ wpc' = [wpc EXCEPT ![t] = IF Tail(inputready[t]) = <<>> THEN "loop" ELSE "for"]
    /\ UNCHANGED sweep

\* What the loop does to the session whose recv or header unpack raised:
\* nothing; the exception is printed.
EvictOnError(s) == UNCHANGED <<sessions, sessVars, sockState, sockFd, eof, sent>>

\* Lines 304-321 for the next ready descriptor: look the session up, recv,
\* unpack the header, call the callback.
WRecv(t) ==
    /\ wpc[t] = "for"
    /\ LET fd == Head(inputready[t])
           s  == sessions[fd]
           k  == socket[s]
       IN  IF k = None
           THEN \* session.socket is None: sck.recv raises AttributeError
                /\ Caught(t)
                /\ UNCHANGED <<sessions, sessVars, sockVars>>
           ELSE IF inbuf[k] = <<>> /\ ~eof[k]
           THEN \* nothing to read on a non-blocking socket: recv raises
                /\ Caught(t)
                /\ UNCHANGED <<sessions, sessVars, sockVars>>
           ELSE IF DecodeOk(SumLen(inbuf[k]))
           THEN /\ inbuf' = [inbuf EXCEPT ![k] = <<>>]
                /\ sck' = [sck EXCEPT ![t] = k]
                /\ block_id' = [block_id EXCEPT ![t] = Head(inbuf[k]).block_id]
                /\ wpc' = [wpc EXCEPT ![t] = "callback"]
                /\ UNCHANGED <<sessions, sessVars, sockState, sockFd, eof, sent,
                               inputready, ret, sweep>>
           ELSE /\ inbuf' = [inbuf EXCEPT ![k] = <<>>]
                /\ Caught(t)
                /\ EvictOnError(s)
    /\ UNCHANGED <<secure, io_thread, closed, callVars, stopVars, ghostVars>>

\* session.callback(payload) comes back: with a value, or with an exception.
WCallback(t, r) ==
    /\ wpc[t] = "callback"
    /\ ret' = [ret EXCEPT ![t] = r]
    /\ wpc' = [wpc EXCEPT ![t] = "returned"]
    /\ UNCHANGED <<clientVars, sessVars, callVars, sockVars, inputready, sck,
                   block_id, sweep, stopVars, ghostVars>>

\* Lines 321-333 once the callback is back: the ack on sck if the value is
\* true, the except clause if the callback or the send raised.
WAfterCallback(t) ==
    /\ wpc[t] = "returned"
    /\ IF ret[t] = "Raise"
       THEN /\ Caught(t)
            /\ UNCHANGED sent
       ELSE IF Truthy(ret[t])
       THEN IF sockState[sck[t]] = "open"
            THEN /\ sent' = [sent EXCEPT ![sck[t]] = Append(@, AckFrame(block_id[t]))]
                 /\ Continue(t)
            ELSE \* sck was closed meanwhile: sck.send raises
                 /\ Caught(t)
                 /\ UNCHANGED sent
       ELSE /\ Continue(t)
            /\ UNCHANGED sent
    /\ UNCHANGED <<clientVars, sessVars, callVars, sockState, sockFd, inbuf, eof,
                   stopVars, ghostVars>>

\* What a stop() that raises inside the finally clause does to the walk: the
\* exception leaves the for statement and ends the thread.
SweepGoesOnAfterRaise == FALSE

\* One turn of "for session in self.sessions.values(): session.stop()".
WSweep(t) ==
    /\ wpc[t] = "sweep"
    /\ LET s == Head(sweep[t])
           last == Tail(sweep[t]) = <<>>
       IN  IF StopRaises(s)
           THEN /\ wpc' = [wpc EXCEPT ![t] =
                              IF SweepGoesOnAfterRaise /\ ~last THEN "sweep" ELSE "dead"]
                /\ sweep' = [sweep EXCEPT ![t] =
                              IF SweepGoesOnAfterRaise THEN Tail(@) ELSE <<>>]
                /\ UNCHANGED <<sessions, sessVars, sockVars>>
           ELSE /\ StopEffect(s)
                /\ sweep' = [sweep EXCEPT ![t] = Tail(@)]
                /\ wpc' = [wpc EXCEPT ![t] = IF last THEN "dead" ELSE "sweep"]
    /\ UNCHANGED <<secure, io_thread, closed, callVars, inputready, sck, block_id,
                   ret, stopVars, ghostVars>>

\* ---------------------------------------------------------------------- Next
Next ==
    \/ \E s \in SessIds, monitor \in {None, 1}, monitor_id \in {None, 1},
          h \in HandshakeInputs : CreateSession(s, monitor, monitor_id, h)
    \/ \E s \in SessIds : Register(s)
    \/ \E s \in SessIds : AssignThread(s)
    \/ \E s \in SessIds : StartThread(s)
    \/ \E s \in SessIds : UserStop(s)
    \/ \E c \in StopCalls : StopAllBegin(c)
    \/ \E c \in StopCalls : StopAllWait(c)
    \/ \E k \in SockIds, len \in DataLens, b \in BlockIds : ServerSend(k, len, b)
    \/ \E k \in SockIds : PeerClose(k)
    \/ \E t \in Threads : WSelect(t)
    \/ \E t \in Threads : WRecv(t)
    \/ \E t \in Threads, r \in CallbackOutcomes : WCallback(t, r)
    \/ \E t \in Threads : WAfterCallback(t)
    \/ \E t \in Threads : WSweep(t)

Spec == Init /\ [][Next]_vars

\* The client on connections the server sends no frame on, with holders of
\* handles that also call start() again: every step of create_session,
\* stop(), start(), stop_all and of the threads that is possible without a
\* frame to read (a closed peer gives the loop its empty chunk).
NextRestart ==
    \/ \E s \in SessIds, monitor \in {None, 1}, monitor_id \in {None, 1},
          h \in HandshakeInputs : CreateSession(s, monitor, monitor_id, h)
    \/ \E s \in SessIds : Register(s)
    \/ \E s \in SessIds : AssignThread(s)
    \/ \E s \in SessIds : StartThread(s)
    \/ \E s \in SessIds : UserStop(s)
    \/ \E s \in SessIds, h \in HandshakeInputs : UserStart(s, h)
    \/ \E c \in StopCalls : StopAllBegin(c)
    \/ \E c \in StopCalls : StopAllWait(c)
    \/ \E k \in SockIds : PeerClose(k)
    \/ \E t \in Threads : WSelect(t)
    \/ \E t \in Threads : WRecv(t)
    \/ \E t \in Threads : WSweep(t)

RestartSpec == Init /\ [][NextRestart]_vars

\* The threads made by create_session are scheduled: a thread that can take
\* its next step in __select takes it, and a callback that was called comes
\* back.
WorkerStep(t) ==
    \/ WSelect(t)
    \/ WRecv(t)
    \/ \E r \in CallbackOutcomes : WCallback(t, r)
    \/ WAfterCallback(t)
    \/ WSweep(t)

FairSpec == Init /\ [][Next]_vars /\ \A t \in Threads : WF_vars(WorkerStep(t))

\* ======================================================================
\* Properties
\* ======================================================================
Active(s) == socket[s] # None /\ sockState[socket[s]] = "open"

\* The step in which Thread t acts on what the callback produced.
AfterCallbackStep(t) == wpc[t] = "returned" /\ wpc'[t] # "returned"

\* No write to any socket happens outside such a step of the thread that
\* holds the socket as sck.
OnlyLoopWrites ==
    \A k \in SockIds :
        sent'[k] # sent[k] =>
            \E t \in Threads : AfterCallbackStep(t) /\ sck[t] = k /\ Truthy(ret[t])

C2_AckSameTransportAndBlock ==
    [][ \A t \in Threads :
          /\ (wpc[t] = "for" /\ wpc'[t] = "callback") =>
                /\ sck'[t] = socket[sessions[Head(inputready[t])]]
                /\ inbuf[sck'[t]] # <<>>
                /\ block_id'[t] = Head(inbuf[sck'[t]]).block_id
          /\ (wpc[t] \in {"callback", "returned"} /\ wpc'[t] \in {"callback", "returned"}) =>
                (sck'[t] = sck[t] /\ block_id'[t] = block_id[t])
          /\ \A k \in SockIds :
                (AfterCallbackStep(t) /\ sent'[k] # sent[k]) =>
                    /\ k = sck[t]
                    /\ sent'[k] = Append(sent[k],
                          [op |-> 4, block_id |-> block_id[t], status |-> 200])
          /\ OnlyLoopWrites ]_vars

\* Two sockets each carry the acknowledgment of their own block id.
C2_Witness ==
    \E k1, k2 \in SockIds :
        /\ k1 # k2
        /\ sent[k1] = <<[op |-> 4, block_id |-> 7, status |-> 200]>>
        /\ sent[k2] = <<[op |-> 4, block_id |-> 9, status |-> 200]>>

\* C3: when the callback raises, the loop sends nothing, leaves every session
\* registered and every socket as it is, does not set the shutdown flag, and
\* is back at the while test.
C3_CallbackRaiseIsolated ==
    [][ \A t \in Threads :
          (AfterCallbackStep(t) /\ ret[t] = "Raise") =>
              /\ sent' = sent
              /\ sessions' = sessions
              /\ socket' = socket
              /\ sockState' = sockState
              /\ closed' = closed
              /\ wpc'[t] = "loop" ]_vars

\* A callback has raised on an open, registered session while shutdown has
\* not been asked for.
C3_Witness ==
    \E t \in Threads, s \in SessIds :
        /\ wpc[t] = "returned" /\ ret[t] = "Raise"
        /\ Active(s) /\ socket[s] = sck[t] /\ Registered(s)
        /\ ~closed

\* C4 as stated: when a stop_all call returns, no session in the registry
\* has an open socket.
C4_AllClosedWhenStopAllReturns ==
    [][ \A c \in StopCalls :
          (sapc[c] # "returned" /\ sapc'[c] = "returned") =>
              \A fd \in FDs : sessions'[fd] # None => socket'[sessions'[fd]] = None ]_vars

\* C5 as stated: the walk of the finally clause ends only when every session
\* it still had to visit is stopped, also after a stop() that raised.
C5_SweepSurvivesRaisingStop ==
    [][ \A t \in Threads :
          (wpc[t] = "sweep" /\ wpc'[t] = "dead") =>
              \A i \in 1..Len(sweep[t]) : socket'[sweep[t][i]] = None ]_vars

\* C6: a step of a stop_all call made in the state an earlier call left on
\* its return (same flag, same thread) changes nothing of the client.
C6_StopAllIdempotent ==
    [][ \A c \in StopCalls :
          ( /\ sapc'[c] # sapc[c]
            /\ \E d \in StopCalls :
                  d # c /\ sapc[d] = "returned" /\ saLeft[d] = <<closed, io_thread>> )
          => /\ UNCHANGED <<secure, sessions, io_thread, closed, socket, sockState,
                            sockFd, sent, wpc>>
             /\ sapc'[c] \in {"waiting", "returned"} ]_vars

\* Both calls have returned after a shutdown that ended the thread.
C6_Witness ==
    /\ \A c \in StopCalls : sapc[c] = "returned"
    /\ closed
    /\ io_thread # None /\ wpc[io_thread] = "dead"

\* C7: a create_session whose start() failed has raised, holds no socket, is
\* under no key of the registry and has made no thread; and no socket object
\* is open without a session that holds it.
C7_FailedHandshakeLeavesNothing ==
    /\ \A s \in SessIds :
          cpc[s] = "hserr" =>
              /\ cerr[s] # "none"
              /\ socket[s] = None
              /\ ~Registered(s)
              /\ wpc[s] = "unborn"
    /\ \A k \in SockIds :
          sockState[k] = "open" => \E s \in SessIds : socket[s] = k

\* A handshake was refused with a status other than 200, the socket made for
\* it is closed.
C7_Witness ==
    \E s \in SessIds, k \in SockIds :
        /\ cpc[s] = "hserr" /\ cerr[s] = "TypeError"
        /\ sockState[k] = "closed"

\* C8: a create_session given neither monitor nor monitor_id has raised
\* PushException, holds no socket, is in no registry entry, has made no
\* thread; no socket object was made for it.
C8_ConfigErrorChangesNothing ==
    /\ \A s \in SessIds :
          cargs[s] = "neither" =>
              /\ cpc[s] = "cfgerr" /\ cerr[s] = "PushException"
              /\ socket[s] = None
              /\ ~Registered(s)
              /\ wpc[s] = "unborn"
    /\ Cardinality({k \in SockIds : sockState[k] # "unused"})
          <= Cardinality({s \in SessIds : cargs[s] = "given"}) + nstart

C8_Witness ==
    \E s \in SessIds :
        /\ cargs[s] = "neither" /\ cpc[s] = "cfgerr"
        /\ \A k \in SockIds : sockState[k] = "unused"
        /\ io_thread = None

\* C9 as stated, for sessions whose create_session call is over: the session
\* is under a key of the registry if and only if it is Active.
C9_RegisteredIffActive ==
    \A s \in SessIds :
        cpc[s] \in {"returned", "thrderr"} => (Registered(s) <=> Active(s))

\* C10 as stated: when recv or the header unpack fails on a session with an
\* open socket, that session is closed and out of the registry afterwards.
C10_FailedSessionEvicted ==
    [][ \A t \in Threads :
          (wpc[t] = "for" /\ wpc'[t] = "loop"
             /\ socket[sessions[Head(inputready[t])]] # None) =>
              LET s == sessions[Head(inputready[t])]
              IN  socket'[s] = None /\ ~(\E fd \in FDs : sessions'[fd] = s) ]_vars

\* The step in which Thread t runs lines 304-321 for the next descriptor of
\* inputready, and the socket it calls recv on.
ReadStep(t) == wpc[t] = "for" /\ wpc'[t] # "for"
ReadSock(t) == socket[sessions[Head(inputready[t])]]

\* The socket is an open connection under its own descriptor in the
\* registry, with data the server sent waiting on it.
DataWaiting(k) ==
    /\ sockState[k] = "open" /\ inbuf[k] # <<>>
    /\ \E s \in SessIds : socket[s] = k /\ sessions[sockFd[k]] = s

\* C11 as stated, for threads that are scheduled: while shutdown is not
\* asked for and a thread is in the loop, data waiting on a registered open
\* connection is eventually read, whatever the other sessions do, unless
\* the connection is closed, shutdown is asked for, or a key of the registry
\* stops being an open descriptor (select itself then fails).
C11_ReadySessionEventuallyRead ==
    \A k \in SockIds :
        (DataWaiting(k) /\ ~closed /\ ~SelectRaises /\ \E t \in Threads : IsAlive(t))
            ~> (inbuf[k] = <<>> \/ sockState[k] # "open" \/ closed \/ SelectRaises)

\* C12 as stated: when the loop reads a socket on which well-formed messages
\* are buffered, it takes the first one off the stream and hands it to the
\* callback under its own block id; the others stay for their own turn, in
\* the order received.
C12_EachBufferedMessageDelivered ==
    [][ \A t \in Threads :
          (ReadStep(t) /\ ReadSock(t) # None /\ inbuf[ReadSock(t)] # <<>>
             /\ \A i \in 1..Len(inbuf[ReadSock(t)]) :
                    inbuf[ReadSock(t)][i].len >= HEADER_LEN) =>
              /\ wpc'[t] = "callback"
              /\ block_id'[t] = Head(inbuf[ReadSock(t)]).block_id
              /\ inbuf'[ReadSock(t)] = Tail(inbuf[ReadSock(t)]) ]_vars

\* Socket objects made so far.
UsedSocks == {k \in SockIds : sockState[k] # "unused"}

\* C13 as stated: start() connects only for a session that is Idle: a socket
\* object is made, and a session gets a socket, only in the step in which a
\* create_session call leaves its idle position.
C13_StartOnlyFromIdle ==
    [][ \A s \in SessIds :
          (cpc[s] # "idle") =>
              /\ (socket[s] = None => socket'[s] = None)
              /\ (UsedSocks' # UsedSocks =>
                      \E r \in SessIds : r # s /\ cpc[r] = "idle" /\ cpc'[r] # "idle") ]_vars

\* C13 amended: while a session holds a socket, no step gives it another
\* socket or another handshake response, and a step that makes a socket
\* object is the start() of a session that held none; start() on a session
\* that holds none (stopped, or failed in an earlier start) connects again.
C13_StartRefusedWhileSocketHeld ==
    [][ \A s \in SessIds :
          (socket[s] # None) =>
              /\ socket'[s] \in {socket[s], None}
              /\ response'[s] = response[s]
              /\ (UsedSocks' # UsedSocks =>
                      \E r \in SessIds : r # s /\ socket[r] = None
                          /\ (cpc[r] = "idle" \/ nstart' = nstart + 1)) ]_vars

\* A session stopped through its handle was started again and holds its
\* second socket, while another session holds its first.
C13_Witness ==
    \E s, r \in SessIds :
        /\ s # r
        /\ nstart = 1 /\ cpc[s] = "returned" /\ Active(s)
        /\ cpc[r] = "returned" /\ Active(r)
        /\ Cardinality(UsedSocks) = 3

\* C14 as stated: stop() raises nothing in any state in which the holder of
\* a handle can call it, also when the session is stopped already.
C14_StopNeverRaises ==
    \A s \in SessIds : cpc[s] = "returned" => ~StopRaises(s)

\* C15 as stated: a 10-byte response with opcode 0x02 and a status other than
\* 200 makes the handshake fail with PushException; with status 200 the
\* handshake succeeds.
C15_BadStatusRaisesPushException ==
    \A s \in SessIds :
        (response[s].len = RESPONSE_LEN /\ response[s].type = CONNECTION_RESPONSE
            /\ cpc[s] # "idle") =>
            IF response[s].status = STATUS_OK
            THEN cerr[s] \in {"none", "RuntimeError"} /\ cpc[s] # "hserr"
            ELSE cerr[s] = "PushException" /\ cpc[s] = "hserr"

\* The response start() takes for a good one: exactly 10 bytes, type 0x02,
\* status 200.
GoodResponse(r) ==
    r.stage = "resp" /\ r.len = RESPONSE_LEN /\ r.type = CONNECTION_RESPONSE
        /\ r.status = STATUS_OK

\* C16: a session holds a socket only when its last start() received a
\* response of exactly 10 bytes with opcode 0x02 and status 200; after any
\* other response, or none, the session holds no socket, and the start() was
\* either the one of a create_session call that has raised or one made
\* through the handle.
C16_ActiveOnlyAfterGoodResponse ==
    \A s \in SessIds :
        /\ socket[s] # None => GoodResponse(response[s])
        /\ (cpc[s] # "idle" /\ cargs[s] = "given" /\ ~GoodResponse(response[s]))
              => /\ socket[s] = None
                 /\ \/ cpc[s] = "hserr" /\ cerr[s] # "none"
                    \/ cpc[s] = "returned" /\ nstart > 0

\* One session is Active after a good response while another got 8 bytes
\* and failed.
C16_Witness ==
    \E s1, s2 \in SessIds :
        /\ Active(s1) /\ GoodResponse(response[s1])
        /\ response[s2].stage = "resp" /\ response[s2].len # RESPONSE_LEN
        /\ cpc[s2] = "hserr"

\* C17 as stated: a create_session call that is past its own start() raises
\* nothing, whatever another call does meanwhile, and no step removes or
\* replaces the registry entry of an Active session under its descriptor.
C17_ConcurrentCallsIndependent ==
    [][ /\ \A s \in SessIds :
              cpc[s] \in {"started", "assign", "start"} =>
                  (cerr'[s] = "none" /\ cpc'[s] # "thrderr")
        /\ \A fd \in FDs :
              (sessions[fd] # None /\ Active(sessions[fd])
                 /\ sockFd[socket[sessions[fd]]] = fd) =>
                  sessions'[fd] = sessions[fd] ]_vars

\* C18 as stated: at most one Thread made by create_session is ever started.
C18_AtMostOneWorker ==
    Cardinality({t \in Threads : wpc[t] \notin {"unborn", "created"}}) <= 1

\* C19 as stated: when a thread ends after shutdown was asked for, every
\* session in the registry has been stopped.
C19_ExitAfterStoppingAll ==
    [][ \A t \in Threads :
          (wpc[t] # "dead" /\ wpc'[t] = "dead") =>
              \A fd \in FDs :
                  sessions'[fd] # None => socket'[sessions'[fd]] = None ]_vars

\* The part of C19 that holds when the threads are scheduled (FairSpec): once
\* shutdown is asked for, every thread that was started ends.
C19_WorkerEnds == closed ~> (\A t \in Threads : ~IsAlive(t))

\* C20: when the loop reads a chunk shorter than the 16 bytes of the header
\* (also the empty chunk of a closed peer), the thread is back at the while
\* test without having called the callback and nothing is written to any
\* socket.
C20_ShortChunkNoCallbackNoAck ==
    [][ \A t \in Threads :
          (ReadStep(t) /\ ReadSock(t) # None /\ Readable(ReadSock(t))
             /\ SumLen(inbuf[ReadSock(t)]) < HEADER_LEN) =>
              /\ wpc'[t] = "loop"
              /\ ret'[t] = "none"
              /\ sent' = sent ]_vars

\* The loop is about to read a chunk of 15 bytes from an open socket.
C20_Witness ==
    \E t \in Threads :
        /\ wpc[t] = "for"
        /\ ReadSock(t) # None /\ sockState[ReadSock(t)] = "open"
        /\ inbuf[ReadSock(t)] # <<>>
        /\ SumLen(inbuf[ReadSock(t)]) = 15

\* A stop_all call has come back from a shutdown: it had seen a thread, set
\* the flag and waited for the thread to end.
ShutdownReturned ==
    \E c \in StopCalls : sapc[c] = "returned" /\ saLeft[c][1] = TRUE

\* The session's create_session call has returned it open and registered
\* while no thread runs __select and no call is about to start one.
Orphan(s) ==
    /\ cpc[s] = "returned" /\ Active(s) /\ Registered(s)
    /\ \A t \in Threads : ~IsAlive(t)
    /\ \A r \in SessIds : cpc[r] \notin {"assign", "start"}

\* Nothing else is under way: every other create_session call is over and
\* every thread that was made has ended.
Quiet(s) ==
    /\ \A r \in SessIds \ {s} : cpc[r] \in {"returned", "cfgerr", "hserr", "thrderr"}
    /\ \A t \in Threads : wpc[t] \in {"unborn", "dead"}

\* C21 as stated: a session whose create_session call begins after a stop_all
\* has come back from a shutdown, with nothing else under way, is never left
\* open and registered with no thread to serve it.
C21_LateSessionNeverOrphan ==
    \A s \in SessIds :
        []((ShutdownReturned /\ cpc[s] = "idle" /\ Quiet(s)) => [](~Orphan(s)))

\* A session was stopped through its handle and is still under a key of the
\* registry.
StoppedByHandle(s) ==
    cpc[s] = "returned" /\ socket[s] = None /\ Registered(s) /\ ~closed

\* C22 as stated, for threads that are scheduled: after a session.stop()
\* through the handle, data waiting on another registered open connection is
\* still eventually read (unless that connection is closed, shutdown is
\* asked for, or a peer has closed a connection, which is the case of C11).
C22_OthersServedAfterHandleStop ==
    \A k \in SockIds :
        (DataWaiting(k) /\ (\E s \in SessIds : StoppedByHandle(s))
            /\ \E t \in Threads : IsAlive(t))
            ~> (inbuf[k] = <<>> \/ sockState[k] # "open" \/ closed
                  \/ \E j \in SockIds : eof[j])

====
